---- MODULE Spec2Model ----
(***************************************************************************)
(* Span filters of Recast (RecastFilter.cpp): the three passes that        *)
(* reclassify the spans of a heightfield as walkable or not walkable.      *)
(*                                                                         *)
(* A heightfield is a grid of w*h columns; a column is the chain of its    *)
(* spans from the lowest to the highest, here a sequence of records        *)
(* [smin, smax, area] (the next link of span i is span i+1).               *)
(***************************************************************************)
EXTENDS Integers, Sequences, FiniteSets

\* -------------------------------------------------------------------------
\* Bounds of the model
\* -------------------------------------------------------------------------
\* Highest voxel height a span of the model may reach.
MaxH == 4
\* Largest walkableClimb tried (walkableClimb ranges over 0..MaxClimb).
MaxClimb == 1
\* Values of walkableHeight tried (the contract asks for walkableHeight > 0).
WalkableHeights == {1, 2}
\* Walkable area ids tried, next to RC_NULL_AREA.
WalkableAreas == {1, 2}

\* -------------------------------------------------------------------------
\* Program constants and helpers
\* -------------------------------------------------------------------------
RC_NULL_AREA == 0
MAX_HEIGHT == 65535

rcAbs(a) == IF a < 0 THEN -a ELSE a
rcMin(a, b) == IF a < b THEN a ELSE b
rcMax(a, b) == IF a > b THEN a ELSE b

rcGetDirOffsetX(dir) == <<-1, 0, 1, 0>>[dir + 1]
rcGetDirOffsetY(dir) == <<0, 1, 0, -1>>[dir + 1]

Areas == {RC_NULL_AREA} \cup WalkableAreas

\* The span record.
rcSpan(lo, hi, a) == [smin |-> lo, smax |-> hi, area |-> a]

\* s->next ? s->next->smin : MAX_HEIGHT, for span i of the chain col.
NextSmin(col, i) == IF i < Len(col) THEN col[i + 1].smin ELSE MAX_HEIGHT

\* -------------------------------------------------------------------------
\* rcFilterLowHangingWalkableObstacles
\* -------------------------------------------------------------------------
\* The area the loop body leaves on span s: a non-walkable span right above
\* a walkable one, whose top is within walkableClimb of that one's top, takes
\* the carried area.
LowHangingArea(s, ps, previousWalkable, previousArea, walkableClimb) ==
    LET walkable == s.area # RC_NULL_AREA
    IN  IF ~walkable /\ previousWalkable
           /\ rcAbs(s.smax - ps.smax) <= walkableClimb
        THEN previousArea
        ELSE s.area

\* A variant that carries the walkability of the rewritten span.
CarriedWalkableMutant(oldArea, newArea) == newArea # RC_NULL_AREA
\* The flag carried to the next span: the walkability read before the span
\* was rewritten.
CarriedWalkable(oldArea, newArea) == oldArea # RC_NULL_AREA

\* The loop over one column, from span i on (ps is read only when
\* previousWalkable holds, which it does not at the first span).
RECURSIVE LowHangingScan(_, _, _, _, _)
LowHangingScan(col, i, previousWalkable, previousArea, walkableClimb) ==
    IF i > Len(col)
    THEN col
    ELSE LET s == col[i]
             ps == IF i > 1 THEN col[i - 1] ELSE s
             a == LowHangingArea(s, ps, previousWalkable, previousArea,
                                 walkableClimb)
         IN  LowHangingScan([col EXCEPT ![i].area = a], i + 1,
                            CarriedWalkable(s.area, a), a, walkableClimb)

\* The pass: every column on its own, from its lowest span.
LowHangingPass(hf, walkableClimb) ==
    [c \in DOMAIN hf |->
        LowHangingScan(hf[c], 1, FALSE, RC_NULL_AREA, walkableClimb)]

\* -------------------------------------------------------------------------
\* rcFilterLedgeSpans
\* -------------------------------------------------------------------------
\* The running values of the neighbour scan of one span.
ScanStart(bot) == [minh |-> MAX_HEIGHT, asmin |-> bot, asmax |-> bot]

\* A variant that leaves bot out.
OutOfBoundsMutant(acc, bot, walkableClimb) ==
    [acc EXCEPT !.minh = rcMin(@, -walkableClimb)]
\* A direction that leaves the grid.
OutOfBounds(acc, bot, walkableClimb) ==
    [acc EXCEPT !.minh = rcMin(@, -walkableClimb - bot)]

\* From minus infinity to the first span of the neighbour column.
BelowFirstSpan(acc, ncol, bot, top, walkableHeight, walkableClimb) ==
    LET nbot == -walkableClimb
        ntop == IF Len(ncol) > 0 THEN ncol[1].smin ELSE MAX_HEIGHT
    IN  IF rcMin(top, ntop) - rcMax(bot, nbot) > walkableHeight
        THEN [acc EXCEPT !.minh = rcMin(@, nbot - bot)]
        ELSE acc

\* A variant that takes every reached surface for accessible.
NeighbourSpanMutant(acc, ncol, j, bot, top, walkableHeight, walkableClimb) ==
    LET nbot == ncol[j].smax
        ntop == NextSmin(ncol, j)
    IN  IF rcMin(top, ntop) - rcMax(bot, nbot) > walkableHeight
        THEN [minh |-> rcMin(acc.minh, nbot - bot),
              asmin |-> IF nbot < acc.asmin THEN nbot ELSE acc.asmin,
              asmax |-> IF nbot > acc.asmax THEN nbot ELSE acc.asmax]
        ELSE acc
\* A variant that passes over the neighbour's non-walkable spans.
NeighbourSpanWalkableOnlyMutant(acc, ncol, j, bot, top, walkableHeight, walkableClimb) ==
    LET nbot == ncol[j].smax
        ntop == NextSmin(ncol, j)
    IN  IF ncol[j].area # RC_NULL_AREA
           /\ rcMin(top, ntop) - rcMax(bot, nbot) > walkableHeight
        THEN LET m == rcMin(acc.minh, nbot - bot)
             IN  IF rcAbs(nbot - bot) <= walkableClimb
                 THEN [minh |-> m,
                       asmin |-> IF nbot < acc.asmin THEN nbot ELSE acc.asmin,
                       asmax |-> IF nbot > acc.asmax THEN nbot ELSE acc.asmax]
                 ELSE [acc EXCEPT !.minh = m]
        ELSE acc
\* One span of the neighbour column.
NeighbourSpan(acc, ncol, j, bot, top, walkableHeight, walkableClimb) ==
    LET nbot == ncol[j].smax
        ntop == NextSmin(ncol, j)
    IN  IF rcMin(top, ntop) - rcMax(bot, nbot) > walkableHeight
        THEN LET m == rcMin(acc.minh, nbot - bot)
             IN  IF rcAbs(nbot - bot) <= walkableClimb
                 THEN [minh |-> m,
                       asmin |-> IF nbot < acc.asmin THEN nbot ELSE acc.asmin,
                       asmax |-> IF nbot > acc.asmax THEN nbot ELSE acc.asmax]
                 ELSE [acc EXCEPT !.minh = m]
        ELSE acc

\* The rest of the spans of the neighbour column, from span j on.
RECURSIVE RestOfSpans(_, _, _, _, _, _, _)
RestOfSpans(acc, ncol, j, bot, top, walkableHeight, walkableClimb) ==
    IF j > Len(ncol)
    THEN acc
    ELSE RestOfSpans(NeighbourSpan(acc, ncol, j, bot, top, walkableHeight,
                                   walkableClimb),
                     ncol, j + 1, bot, top, walkableHeight, walkableClimb)

\* One of the four directions around the column (x, y).
ScanDir(acc, hf, gw, gh, x, y, dir, bot, top, walkableHeight, walkableClimb) ==
    LET dx == x + rcGetDirOffsetX(dir)
        dy == y + rcGetDirOffsetY(dir)
    IN  IF dx < 0 \/ dy < 0 \/ dx >= gw \/ dy >= gh
        THEN OutOfBounds(acc, bot, walkableClimb)
        ELSE LET ncol == hf[dx + dy * gw]
             IN  RestOfSpans(BelowFirstSpan(acc, ncol, bot, top,
                                            walkableHeight, walkableClimb),
                             ncol, 1, bot, top, walkableHeight, walkableClimb)

\* The four directions, from dir on.
RECURSIVE ScanDirs(_, _, _, _, _, _, _, _, _, _, _)
ScanDirs(acc, hf, gw, gh, x, y, dir, bot, top, walkableHeight, walkableClimb) ==
    IF dir >= 4
    THEN acc
    ELSE ScanDirs(ScanDir(acc, hf, gw, gh, x, y, dir, bot, top,
                          walkableHeight, walkableClimb),
                  hf, gw, gh, x, y, dir + 1, bot, top, walkableHeight,
                  walkableClimb)

\* A variant with <= in the first test.
LedgeTestMutant(acc, walkableClimb) ==
    \/ acc.minh <= -walkableClimb
    \/ (acc.asmax - acc.asmin) > walkableClimb
\* A variant without the steep-slope test.
LedgeTestNoSlopeMutant(acc, walkableClimb) ==
    acc.minh < -walkableClimb
\* The two tests that make a span a ledge.
LedgeTest(acc, walkableClimb) ==
    \/ acc.minh < -walkableClimb
    \/ (acc.asmax - acc.asmin) > walkableClimb

\* The loop body for span i of column c: the heightfield it leaves.
LedgeSpan(hf, gw, gh, c, i, walkableHeight, walkableClimb) ==
    LET s == hf[c][i]
        bot == s.smax
        top == NextSmin(hf[c], i)
        acc == ScanDirs(ScanStart(bot), hf, gw, gh, c % gw, c \div gw, 0,
                        bot, top, walkableHeight, walkableClimb)
    IN  IF s.area = RC_NULL_AREA
        THEN hf
        ELSE IF LedgeTest(acc, walkableClimb)
             THEN [hf EXCEPT ![c][i].area = RC_NULL_AREA]
             ELSE hf

\* The pass: the columns in the order x + y*w, the spans of a column from
\* the lowest, every span rewritten in place before the next one is read.
RECURSIVE LedgeLoop(_, _, _, _, _, _, _)
LedgeLoop(hf, gw, gh, c, i, walkableHeight, walkableClimb) ==
    IF c >= gw * gh
    THEN hf
    ELSE IF i > Len(hf[c])
         THEN LedgeLoop(hf, gw, gh, c + 1, 1, walkableHeight, walkableClimb)
         ELSE LedgeLoop(LedgeSpan(hf, gw, gh, c, i, walkableHeight,
                                  walkableClimb),
                        gw, gh, c, i + 1, walkableHeight, walkableClimb)

LedgePass(hf, gw, gh, walkableHeight, walkableClimb) ==
    LedgeLoop(hf, gw, gh, 0, 1, walkableHeight, walkableClimb)

\* -------------------------------------------------------------------------
\* rcFilterWalkableLowHeightSpans
\* -------------------------------------------------------------------------
\* A variant with < for <=.
LowHeightAreaMutant(col, i, walkableHeight) ==
    IF (NextSmin(col, i) - col[i].smax) < walkableHeight
    THEN RC_NULL_AREA
    ELSE col[i].area
\* A variant that restores a default area where the headroom suffices.
LowHeightAreaResetMutant(col, i, walkableHeight) ==
    IF (NextSmin(col, i) - col[i].smax) <= walkableHeight
    THEN RC_NULL_AREA
    ELSE 1
\* A variant that also removes a span standing on a non-walkable one.
LowHeightAreaCarryMutant(col, i, walkableHeight) ==
    IF (NextSmin(col, i) - col[i].smax) <= walkableHeight
       \/ (i > 1 /\ col[i - 1].area = RC_NULL_AREA)
    THEN RC_NULL_AREA
    ELSE col[i].area
\* The area the loop body leaves on span i of the chain col.
LowHeightArea(col, i, walkableHeight) ==
    LET bot == col[i].smax
        top == NextSmin(col, i)
    IN  IF (top - bot) <= walkableHeight THEN RC_NULL_AREA ELSE col[i].area

LowHeightPass(hf, walkableHeight) ==
    [c \in DOMAIN hf |->
        [i \in 1..Len(hf[c]) |->
            [hf[c][i] EXCEPT !.area = LowHeightArea(hf[c], i, walkableHeight)]]]

\* -------------------------------------------------------------------------
\* Heightfields tried
\* -------------------------------------------------------------------------
\* The well-formed chains of at most n spans that start at height lo or
\* above and end at MaxH or below, with their areas drawn from areas.
RECURSIVE Chains(_, _, _)
Chains(lo, n, areas) ==
    IF n = 0
    THEN {<<>>}
    ELSE {<<>>} \cup
         UNION {{<<rcSpan(a, b, ar)>> \o rest :
                    rest \in Chains(b, n - 1, areas), ar \in areas} :
                <<a, b>> \in {p \in (lo..MaxH) \X (lo..MaxH) : p[1] < p[2]}}

\* A single walkable span standing on the ground, or nothing.
Floors == {<<>>} \cup {<<rcSpan(0, t, 1)>> : t \in 1..MaxH}

\* The places <<c, i>> of the spans of a heightfield.
SpanPlaces(hf) == {p \in (DOMAIN hf) \X (1..MaxH) : p[2] <= Len(hf[p[1]])}

\* A walkable span standing on the ground, alone or under one non-walkable
\* span one voxel thick, or nothing.
Stacks ==
    {<<>>} \cup {<<rcSpan(0, b, 1)>> : b \in 1..MaxH}
    \cup {<<rcSpan(0, p[1], 1), rcSpan(p[2], p[2] + 1, RC_NULL_AREA)>> :
            p \in {q \in (1..MaxH) \X (1..(MaxH - 1)) : q[1] <= q[2]}}

\* The heightfields tried on a one-row grid: any chain of up to three spans
\* alone, or any chain of up to two spans with a floor next to it.
RowHeightfields ==
    {[c \in 0..0 |-> col] : col \in Chains(0, 3, Areas)}
    \cup {[c \in 0..1 |-> IF c = 0 THEN col ELSE f] :
            col \in Chains(0, 2, Areas), f \in Floors}

\* The heightfields tried on the 3x3 grid: a stack in the centre, a floor on
\* each of its four sides (the same one to the north and to the south), and
\* nothing in the corners.
GridHeightfields ==
    {[c \in 0..8 |-> CASE c = 4 -> ctr
                       [] c \in {1, 7} -> ns
                       [] c = 3 -> we
                       [] c = 5 -> ea
                       [] OTHER -> <<>>] :
        ctr \in Stacks, ns \in Floors, we \in Floors, ea \in Floors}

\* The 3x3 heightfields tried for a ledge pass that visits the spans in any
\* order: as above, with the same floor to the west and to the east too.
MirrorHeightfields == {hf \in GridHeightfields : hf[3] = hf[5]}

PassNames == {"LowHanging", "Ledge", "LowHeight"}

\* The sequences of passes followed: one pass, or one pass after another.
Histories == {<<>>} \cup {<<p>> : p \in PassNames}
                \cup {<<p, q>> : p \in PassNames, q \in PassNames}

\* -------------------------------------------------------------------------
\* The state machine: a caller that builds a heightfield and runs passes
\* -------------------------------------------------------------------------
VARIABLES
    w,              \* solid.width
    h,              \* solid.height
    spans,          \* solid.spans: column x + y*w |-> its chain
    walkableClimb,  \* the walkableClimb the caller passes
    walkableHeight, \* the walkableHeight the caller passes
    spans0,         \* the heightfield the voxelization handed over
    pre,            \* the heightfield before the last pass
    hist,           \* the passes run so far, in order
    pending         \* the spans <<c, i>> a ledge pass under way has yet to visit

vars == <<w, h, spans, walkableClimb, walkableHeight, spans0, pre, hist, pending>>

\* The caller's parameters and history, for a heightfield hf of gw columns.
Start(hf, gw) ==
    /\ spans = hf
    /\ w = gw
    /\ h = Cardinality(DOMAIN hf) \div gw
    /\ walkableClimb \in 0..MaxClimb
    /\ walkableHeight \in WalkableHeights
    /\ spans0 = spans
    /\ pre = spans
    /\ hist = <<>>
    /\ pending = {}

\* One-row grids, one or two columns wide.
Init == \E hf \in RowHeightfields : Start(hf, Cardinality(DOMAIN hf))

\* The 3x3 grid.
InitGrid == \E hf \in GridHeightfields : Start(hf, 3)

rcFilterLowHangingWalkableObstacles ==
    /\ pending = {}
    /\ Append(hist, "LowHanging") \in Histories
    /\ spans' = LowHangingPass(spans, walkableClimb)
    /\ hist' = Append(hist, "LowHanging")
    /\ pre' = spans
    /\ UNCHANGED <<w, h, walkableClimb, walkableHeight, spans0, pending>>

rcFilterLedgeSpans ==
    /\ pending = {}
    /\ Append(hist, "Ledge") \in Histories
    /\ spans' = LedgePass(spans, w, h, walkableHeight, walkableClimb)
    /\ hist' = Append(hist, "Ledge")
    /\ pre' = spans
    /\ UNCHANGED <<w, h, walkableClimb, walkableHeight, spans0, pending>>

rcFilterWalkableLowHeightSpans ==
    /\ pending = {}
    /\ Append(hist, "LowHeight") \in Histories
    /\ spans' = LowHeightPass(spans, walkableHeight)
    /\ hist' = Append(hist, "LowHeight")
    /\ pre' = spans
    /\ UNCHANGED <<w, h, walkableClimb, walkableHeight, spans0, pending>>

Next ==
    \/ rcFilterLowHangingWalkableObstacles
    \/ rcFilterLedgeSpans
    \/ rcFilterWalkableLowHeightSpans

Spec == Init /\ [][Next]_vars

SpecGrid == InitGrid /\ [][Next]_vars

\* A ledge pass that visits the spans in any order, each one rewritten in
\* place before the next is read, as threads sharing the heightfield would.
InitInPlace ==
    /\ \E hf \in MirrorHeightfields : Start(hf, 3)

LedgeBegin ==
    /\ pending = {}
    /\ hist = <<>>
    /\ pending' = SpanPlaces(spans)
    /\ pending' # {}
    /\ pre' = spans
    /\ UNCHANGED <<w, h, spans, walkableClimb, walkableHeight, spans0, hist>>

LedgeVisit ==
    \E p \in pending :
        /\ spans' = LedgeSpan(spans, w, h, p[1], p[2], walkableHeight,
                              walkableClimb)
        /\ pending' = pending \ {p}
        /\ hist' = IF pending' = {} THEN Append(hist, "Ledge") ELSE hist
        /\ UNCHANGED <<w, h, walkableClimb, walkableHeight, spans0, pre>>

NextInPlace ==
    \/ LedgeBegin
    \/ LedgeVisit
    \/ rcFilterLedgeSpans

SpecInPlace == InitInPlace /\ [][NextInPlace]_vars

\* =========================================================================
\* Properties
\* =========================================================================
Last == IF hist = <<>> THEN "none" ELSE hist[Len(hist)]

Walkable(s) == s.area # RC_NULL_AREA

\* The place of every span of the current heightfield.
Places == {p \in (DOMAIN spans) \X (1..MaxH) : p[2] <= Len(spans[p[1]])}

\* Span i of chain col is non-walkable, the span below it is walkable, and
\* their tops are within walkableClimb of each other.
Rescuable(col, i) ==
    /\ i > 1
    /\ ~Walkable(col[i])
    /\ Walkable(col[i - 1])
    /\ col[i].smax - col[i - 1].smax <= walkableClimb
    /\ col[i - 1].smax - col[i].smax <= walkableClimb

\* The headroom above span i of chain col.
Clearance(col, i) ==
    (IF i = Len(col) THEN MAX_HEIGHT ELSE col[i + 1].smin) - col[i].smax

C2_ClearancePost ==
    Last = "LowHeight" =>
        \A p \in Places :
            LET c == p[1]
                i == p[2]
            IN  /\ Walkable(spans[c][i])
                    => Clearance(spans[c], i) > walkableHeight
                /\ Clearance(pre[c], i) > walkableHeight
                    => spans[c][i].area = pre[c][i].area

\* A walkable span kept under another span, with exactly one voxel more
\* headroom than walkableHeight.
C2_Witness ==
    /\ Last = "LowHeight"
    /\ \E c \in DOMAIN spans :
        \E i \in 1..(Len(spans[c]) - 1) :
            /\ Walkable(spans[c][i])
            /\ Clearance(spans[c], i) = walkableHeight + 1

\* C7: a second clearance pass with the same walkableHeight changes nothing.
C7_Idempotent ==
    hist = <<"LowHeight", "LowHeight">> => spans = pre

\* Two clearance passes in a row, the first of which removed a span.
C7_Witness ==
    /\ hist = <<"LowHeight", "LowHeight">>
    /\ pre # spans0

\* C8: a pass changes no smin, no smax and no chain; the ledge and clearance
\* passes only turn walkable spans non-walkable; the low-hanging-obstacle
\* pass only gives a non-walkable span the area of the span below it.
C8_Frame ==
    Last # "none" =>
        /\ DOMAIN spans = DOMAIN pre
        /\ \A c \in DOMAIN spans :
            /\ Len(spans[c]) = Len(pre[c])
            /\ \A i \in 1..Len(spans[c]) :
                LET old == pre[c][i]
                    new == spans[c][i]
                IN  /\ new.smin = old.smin
                    /\ new.smax = old.smax
                    /\ DOMAIN new = DOMAIN old
                    /\ IF Last = "LowHanging"
                       THEN /\ Walkable(old) => new.area = old.area
                            /\ ~Walkable(old) =>
                                \/ new.area = old.area
                                \/ i > 1 /\ new.area = pre[c][i - 1].area
                       ELSE /\ ~Walkable(old) => ~Walkable(new)
                            /\ Walkable(old) =>
                                new.area \in {old.area, RC_NULL_AREA}

\* Two passes in a row that both changed an area.
C8_Witness ==
    /\ hist = <<"LowHanging", "LowHeight">>
    /\ pre # spans0
    /\ spans # pre

\* -------------------------------------------------------------------------
\* The ledge decision as the specification words it
\* -------------------------------------------------------------------------
SetMin(S) == CHOOSE m \in S : \A x \in S : m <= x
SetMax(S) == CHOOSE m \in S : \A x \in S : m >= x

Cardinal == {<<-1, 0>>, <<1, 0>>, <<0, -1>>, <<0, 1>>}

InGrid(x, y) == 0 <= x /\ x < w /\ 0 <= y /\ y < h

\* The cardinal directions that lead out of the grid from column c.
OutDirs(c) == {d \in Cardinal : ~InGrid((c % w) + d[1], (c \div w) + d[2])}

\* The neighbour columns of column c inside the grid.
InCols(c) ==
    {((c % w) + d[1]) + ((c \div w) + d[2]) * w : d \in Cardinal \ OutDirs(c)}

\* The surfaces of a column: the top of every span, with the room above it.
RealSurfaces(col) ==
    {[nbot |-> col[j].smax,
      ntop |-> IF j = Len(col) THEN MAX_HEIGHT ELSE col[j + 1].smin] :
        j \in 1..Len(col)}

\* The candidates of a column: the virtual span below the lowest real span,
\* and its surfaces.
Candidates(col) ==
    {[nbot |-> -walkableClimb,
      ntop |-> IF col = <<>> THEN MAX_HEIGHT ELSE col[1].smin]}
    \cup RealSurfaces(col)

Overlap(bot, top, cand) ==
    (IF top < cand.ntop THEN top ELSE cand.ntop)
        - (IF bot > cand.nbot THEN bot ELSE cand.nbot)

Bot(hf, c, i) == hf[c][i].smax
Top(hf, c, i) == IF i = Len(hf[c]) THEN MAX_HEIGHT ELSE hf[c][i + 1].smin

\* The candidates of the neighbour columns with sufficient overlap.
Reached(hf, c, i, cols) ==
    UNION {{cand \in Candidates(hf[n]) :
                Overlap(Bot(hf, c, i), Top(hf, c, i), cand) > walkableHeight} :
           n \in cols}

Minh(hf, c, i) ==
    SetMin({MAX_HEIGHT}
           \cup {(-walkableClimb) - Bot(hf, c, i) : d \in OutDirs(c)}
           \cup {cand.nbot - Bot(hf, c, i) : cand \in Reached(hf, c, i, InCols(c))})

\* The heights asmin and asmax range over: bot and the accessible candidates.
Accessible(hf, c, i, cands) ==
    {Bot(hf, c, i)}
    \cup {cand.nbot : cand \in
            {k \in cands :
                /\ k.nbot - Bot(hf, c, i) <= walkableClimb
                /\ Bot(hf, c, i) - k.nbot <= walkableClimb}}

Spread(S) == SetMax(S) - SetMin(S)

MarkingCondition(hf, c, i) ==
    \/ Minh(hf, c, i) < -walkableClimb
    \/ Spread(Accessible(hf, c, i, Reached(hf, c, i, InCols(c)))) > walkableClimb

\* Every neighbour column of c inside the grid offers a surface level with
\* span i that overlaps it enough, none of them drops deeper than
\* walkableClimb, and their accessible heights are within walkableClimb.
LevelInGrid(hf, c, i) ==
    /\ \A n \in InCols(c) :
        \E cand \in RealSurfaces(hf[n]) :
            /\ cand.nbot = Bot(hf, c, i)
            /\ Overlap(Bot(hf, c, i), Top(hf, c, i), cand) > walkableHeight
    /\ \A cand \in Reached(hf, c, i, InCols(c)) :
        cand.nbot - Bot(hf, c, i) >= -walkableClimb
    /\ Spread(Accessible(hf, c, i, Reached(hf, c, i, InCols(c)))) <= walkableClimb

Supported(hf, c, i) ==
    /\ OutDirs(c) = {}
    /\ Walkable(hf[c][i])
    /\ \A n \in InCols(c) :
        \E cand \in RealSurfaces(hf[n]) : cand \in Reached(hf, c, i, {n})
    /\ \A cand \in Reached(hf, c, i, InCols(c)) :
        cand.nbot - Bot(hf, c, i) >= -walkableClimb

\* The heights of the neighbour surfaces reached.
SurfaceHeights(hf, c, i) ==
    {cand.nbot : cand \in
        UNION {RealSurfaces(hf[n]) \cap Reached(hf, c, i, {n}) : n \in InCols(c)}}

C5_LedgeLast ==
    hist = <<"LowHanging", "Ledge">> =>
        \A p \in Places :
            Walkable(spans[p[1]][p[2]]) => ~MarkingCondition(spans, p[1], p[2])

\* The heightfield the reverse order leaves.
LedgeThenLowHanging(hf) ==
    LowHangingPass(LedgePass(hf, w, h, walkableHeight, walkableClimb),
                   walkableClimb)

\* A span the low-hanging-obstacle pass rescued and the ledge pass marked
\* again, in a heightfield where the reverse order leaves a walkable span
\* that satisfies the marking condition.
C5_Witness ==
    /\ hist = <<"LowHanging", "Ledge">>
    /\ \E p \in Places :
        /\ ~Walkable(spans0[p[1]][p[2]])
        /\ Walkable(pre[p[1]][p[2]])
        /\ ~Walkable(spans[p[1]][p[2]])
    /\ LedgeThenLowHanging(spans0) # spans
    /\ \E q \in Places :
        /\ Walkable(LedgeThenLowHanging(spans0)[q[1]][q[2]])
        /\ MarkingCondition(LedgeThenLowHanging(spans0), q[1], q[2])

\* C6 as stated: the clearance pass before either other pass leaves what the
\* clearance pass after it leaves.
C6_ClearanceCommutes ==
    /\ hist = <<"LowHeight", "LowHanging">> =>
        spans = LowHeightPass(LowHangingPass(spans0, walkableClimb),
                              walkableHeight)
    /\ hist = <<"LowHeight", "Ledge">> =>
        spans = LowHeightPass(LedgePass(spans0, w, h, walkableHeight,
                                        walkableClimb),
                              walkableHeight)

\* C6 as amended: the clearance pass before the ledge pass leaves what the
\* clearance pass after the ledge pass leaves.
C6_ClearanceCommutesWithLedge ==
    hist = <<"LowHeight", "Ledge">> =>
        spans = LowHeightPass(LedgePass(spans0, w, h, walkableHeight,
                                        walkableClimb),
                              walkableHeight)

\* The clearance pass, then the ledge pass, each of which removed a span.
C6_Witness ==
    /\ hist = <<"LowHeight", "Ledge">>
    /\ pre # spans0
    /\ spans # pre

\* The heightfield left when every span is decided against the heightfield
\* hf as it was before the pass.
SnapshotLedge(hf) ==
    [c \in DOMAIN hf |->
        [i \in 1..Len(hf[c]) |->
            LedgeSpan(hf, w, h, c, i, walkableHeight, walkableClimb)[c][i]]]

\* C10: whatever the order in which the ledge pass visits the spans, each
\* one rewritten in place, a visited span holds what the decision against
\* the pre-pass snapshot gives it; so does every span after the pass in the
\* order of the code; and a second pass changes nothing.
C10_OrderInsensitive ==
    /\ \A p \in Places :
        spans[p[1]][p[2]] =
            IF hist = <<>> /\ (pending = {} \/ p \in pending)
            THEN spans0[p[1]][p[2]]
            ELSE SnapshotLedge(spans0)[p[1]][p[2]]
    /\ hist = <<"Ledge", "Ledge">> => spans = pre

\* A pass under way: an interior walkable span still to visit, next to a
\* column the pass has already rewritten.
C10_Witness ==
    /\ pending # {}
    /\ \E p \in pending :
        /\ OutDirs(p[1]) = {}
        /\ Walkable(spans[p[1]][p[2]])
        /\ ~MarkingCondition(spans, p[1], p[2])
        /\ \E n \in InCols(p[1]) : spans[n] # spans0[n]

====
